---- MODULE Spec2Model ----
(***************************************************************************)
(* Model of the sigma calibration of dppp (src/dppp/dputil.py):            *)
(* get_bracketing_bounds, update_bounds and _approximate_sigma.            *)
(*                                                                         *)
(* Number representation.  Epsilons are positive integers (one unit is an  *)
(* arbitrary fixed fraction of an epsilon); sigmas are non-negative        *)
(* integers in units of 1/SigDen, saturating at SigInf the way a float     *)
(* saturates at inf and rounding towards zero the way a float underflows.  *)
(* np.log is the table LnTable (natural logarithm times 1000, rounded).    *)
(* The privacy oracle compute_eps_fn is external: every evaluation either  *)
(* raises ValueError or returns some epsilon of EpsVals.                   *)
(*                                                                         *)
(* The module also models the ADADP optimizer (src/dppp/optimizers.py),    *)
(* the noise perturbation of DPSVI._combine_and_transform_gradient and the *)
(* gradient clipping (dppp/svi.py).  Each component has its own variables  *)
(* and its own specification (Spec, SpecAdadp, SpecSvi, SpecClip); the     *)
(* variables of the other components stay at their idle values.            *)
(***************************************************************************)
EXTENDS Integers, Sequences, FiniteSets, TLC

\* ---------------------------------------------------------------- bounds
MaxEval == 7
SigDen == 64
SigInf == 65536

MaxSteps == 4
LrDen == 100
TolDen == 4
MultDen == 100
MaxCalls == 3

\* inputs of _approximate_sigma that the model enumerates
TargetVals == {20}
TolVals == {0, 1}
QVals == {1, 4}
EpsVals == {10, 19, 20, 21, 40}

\* outcome of one oracle evaluation: <<>> when compute_eps_fn raises
\* ValueError, <<e>> when it returns e
Raise == <<>>
Outcomes == {<<e>> : e \in EpsVals} \cup {Raise}

VARIABLES
    target_eps, tol, maxeval, force_smaller, q,   \* arguments of the call
    pc,                    \* position in the code
    sig, num_evals, eps,   \* locals of get_bracketing_bounds
    sig_1, eps_1,
    bounds, bound_eps,     \* <<lower, upper>> sigma bracket and its epsilons
    consecutive_updates,
    new_sig,               \* <<>> while the local is unbound, <<s>> once assigned
    ret,                   \* <<>> or the returned triple <<sigma, eps, num_evals>>
    err,                   \* the exception that reached the caller
    calls, raises,         \* history: oracle invocations made / that raised
    new_eps,               \* local of the stability loop (line 39)
    attempts,              \* history: failed iterations of the stability loop
    hist,                  \* history: the points <<sigma, eps>> the oracle returned
                           \* a value for (lines 33, 58, 73, 158, 177), in order
    opt_cfg,               \* arguments of adadp(...)
    opt_state,             \* optimizer state (x, lr, x_stepped, x_prev)
    opt_i,                 \* number of updates made so far
    opt_last,              \* history: what the last update measured and did
    svi_state,             \* SVIState (optim_state, rng_key) threaded over calls
    svi_in,                \* history: arguments of the last perturbation call
    svi_out,               \* (loss, gradient) the last perturbation call returned
    svi_draws,             \* history: per call, the keys the noise was drawn with
    clip_c,                \* clipping threshold
    clip_in,               \* per-example gradient tree given to the clipper
    clip_out,              \* gradient tree the clipper returned
    clip_pc                \* "ready" before and "done" after the clipping

args == <<target_eps, tol, maxeval, force_smaller, q>>
vars == <<target_eps, tol, maxeval, force_smaller, q, pc, sig, num_evals, eps,
          sig_1, eps_1, bounds, bound_eps, consecutive_updates, new_sig, ret,
          err, calls, raises, new_eps, attempts, hist,
          opt_cfg, opt_state, opt_i, opt_last,
          svi_state, svi_in, svi_out, svi_draws,
          clip_c, clip_in, clip_out, clip_pc>>
calVars == <<target_eps, tol, maxeval, force_smaller, q, pc, sig, num_evals,
             eps, sig_1, eps_1, bounds, bound_eps, consecutive_updates,
             new_sig, ret, err, calls, raises, new_eps, attempts, hist>>
optVars == <<opt_cfg, opt_state, opt_i, opt_last>>
sviVars == <<svi_state, svi_in, svi_out, svi_draws>>
clipVars == <<clip_c, clip_in, clip_out, clip_pc>>

\* ------------------------------------------------------------ arithmetic
Abs(x) == IF x < 0 THEN -x ELSE x
Min(a, b) == IF a < b THEN a ELSE b

\* float multiplication of a sigma by a constant (saturates)
Times(s, k) == Min(s * k, SigInf)
\* float division of a sigma by a constant (underflows to 0, inf stays inf)
Over(s, k) == IF s = SigInf THEN SigInf ELSE s \div k

LnTable ==
    << 0, 693, 1099, 1386, 1609, 1792, 1946, 2079, 2197, 2303,
       2398, 2485, 2565, 2639, 2708, 2773, 2833, 2890, 2944, 2996,
       3045, 3091, 3135, 3178, 3219, 3258, 3296, 3332, 3367, 3401,
       3434, 3466, 3497, 3526, 3555, 3584, 3611, 3638, 3664, 3689 >>
\* np.log
Ln(e) == LnTable[e]

Max(a, b) == IF a > b THEN a ELSE b

\* ------------------------------------------------------------ exceptions
NoErr == [type |-> "none", line |-> 0, args |-> <<>>]
Exc(t, l, a) == [type |-> t, line |-> l, args |-> a]

BudgetMsg == "Could not establish bounds in given evaluation limit"
\* RuntimeError("Could not establish bounds in given evaluation limit")
\* (variant: the evaluation count as a second argument)
BudgetErrorWithCount(l, n) == Exc("RuntimeError", l, <<BudgetMsg, n>>)
BudgetError(l, n) == Exc("RuntimeError", l, <<BudgetMsg>>)

\* np.mean(sig, sig_1): the second positional argument of np.mean is the
\* axis; a float axis is rejected with TypeError
NpMeanAxis(a, axis) == [ok |-> FALSE, type |-> "TypeError", value |-> 0]

\* ----------------------------------------------- get_bracketing_bounds
\* initial_sigma = 1. / (0.01/q), q given in percent
InitialSigma(qq) == SigDen * qq

\* while num_evals < maxeval  (line 30)
\* (variant: off by one, n <= m)
StabilityLoopCondLate(n, m) == n <= m
StabilityLoopCond(n, m) == n < m

\* abs(1-eps/new_eps) <= .1
\* (variant: tolerance .2)
StableLoose(e, ne) == Abs(ne - e) * 5 <= ne
Stable(e, ne) == Abs(ne - e) * 10 <= ne

\* if num_evals >= maxeval  (line 47)
\* (variant: strict comparison)
BudgetExhaustedLate(n, m) == n > m
BudgetExhausted(n, m) == n >= m

Raised(e) ==
    /\ pc' = "raised"
    /\ err' = e
    /\ ret' = <<>>

\* lines 30-45: one iteration of the two-precision stability loop
StabilityIter ==
    /\ pc = "stab"
    /\ StabilityLoopCond(num_evals, maxeval)
    /\ \E o1 \in Outcomes :
         IF o1 = Raise
         THEN \* line 33 raises: except ValueError: sig *= 10
              /\ num_evals' = num_evals + 1
              /\ calls' = calls + 1
              /\ raises' = raises + 1
              /\ sig' = Times(sig, 10)
              /\ attempts' = attempts + 1
              /\ UNCHANGED <<eps, pc, new_eps, hist>>
         ELSE \E o2 \in Outcomes :
              /\ num_evals' = num_evals + 2
              /\ calls' = calls + 2
              /\ eps' = o1[1]
              /\ hist' = Append(hist, <<sig, o1[1]>>)
              /\ IF o2 = Raise
                 THEN /\ raises' = raises + 1
                      /\ sig' = Times(sig, 10)
                      /\ attempts' = attempts + 1
                      /\ UNCHANGED <<pc, new_eps>>
                 ELSE /\ UNCHANGED raises
                      /\ new_eps' = o2[1]
                      /\ IF Stable(o1[1], o2[1])
                         THEN /\ pc' = "budget"      \* break
                              /\ UNCHANGED <<sig, attempts>>
                         ELSE /\ sig' = Times(sig, 10)
                              /\ attempts' = attempts + 1
                              /\ UNCHANGED pc
    /\ UNCHANGED <<optVars, sviVars, clipVars, args, sig_1, eps_1, bounds, bound_eps, consecutive_updates,
                   new_sig, ret, err>>

\* line 30: the loop condition fails
StabilityExit ==
    /\ pc = "stab"
    /\ ~StabilityLoopCond(num_evals, maxeval)
    /\ pc' = "budget"
    /\ UNCHANGED <<optVars, sviVars, clipVars, args, new_eps, attempts, hist, sig, num_evals, eps, sig_1, eps_1, bounds, bound_eps,
                   consecutive_updates, new_sig, ret, err, calls, raises>>

\* lines 47-52
CheckBudget ==
    /\ pc = "budget"
    /\ IF BudgetExhausted(num_evals, maxeval)
       THEN /\ Raised(BudgetError(48, num_evals))
            /\ UNCHANGED <<sig_1, eps_1>>
       ELSE /\ sig_1' = sig
            /\ eps_1' = eps
            /\ pc' = IF eps >= target_eps THEN "grow" ELSE "shrink"
            /\ UNCHANGED <<ret, err>>
    /\ UNCHANGED <<optVars, sviVars, clipVars, args, new_eps, attempts, hist, sig, num_evals, eps, bounds, bound_eps,
                   consecutive_updates, new_sig, calls, raises>>

\* while num_evals < maxeval  (lines 55 and 70)
InnerLoopCond(n, m) == n < m

\* variant: the bracket is returned with its two sigmas exchanged
EnterRefinementSwapped(b, be) ==
    /\ bounds' = <<b[2], b[1]>>
    /\ bound_eps' = be
    /\ eps' = be[2]
    /\ consecutive_updates' = <<0, 0>>
    /\ pc' = "refine"

\* get_bracketing_bounds returns (bounds, bound_eps, num_evals) and
\* _approximate_sigma continues at lines 142-143
EnterRefinement(b, be) ==
    /\ bounds' = b
    /\ bound_eps' = be
    /\ eps' = be[2]
    /\ consecutive_updates' = <<0, 0>>
    /\ pc' = "refine"

\* lines 55-64 and 70-79: the evaluation loop inside the grow / shrink loop
InnerEval(back, lineMean, lineBudget) ==
    /\ IF InnerLoopCond(num_evals, maxeval)
       THEN \E o \in Outcomes :
            /\ num_evals' = num_evals + 1
            /\ calls' = calls + 1
            /\ IF o # Raise
               THEN /\ eps' = o[1]
                    /\ hist' = Append(hist, <<sig, o[1]>>)
                    /\ pc' = back                    \* break
                    /\ UNCHANGED <<sig, raises, ret, err>>
               ELSE \* except ValueError: sig = np.mean(sig, sig_1)
                    /\ raises' = raises + 1
                    /\ UNCHANGED <<eps, hist>>
                    /\ LET m == NpMeanAxis(sig, sig_1) IN
                       IF ~m.ok
                       THEN /\ Raised(Exc(m.type, lineMean, <<>>))
                            /\ UNCHANGED sig
                       ELSE /\ sig' = m.value
                            /\ IF BudgetExhausted(num_evals', maxeval)
                               THEN Raised(BudgetError(lineBudget, num_evals'))
                               ELSE UNCHANGED <<pc, ret, err>>
       ELSE /\ pc' = back
            /\ UNCHANGED <<sig, num_evals, eps, ret, err, calls, raises, hist>>
    /\ UNCHANGED <<optVars, sviVars, clipVars, args, sig_1, eps_1, bounds, bound_eps, consecutive_updates,
                   new_sig, new_eps, attempts>>

\* lines 53-54 and 66: head of the grow loop
GrowStep ==
    /\ pc = "grow"
    /\ IF eps >= target_eps
       THEN /\ sig' = Times(sig, 4)
            /\ pc' = "grow_eval"
            /\ UNCHANGED <<eps, bounds, bound_eps, consecutive_updates>>
       ELSE /\ EnterRefinement(<<sig_1, sig>>, <<eps_1, eps>>)
            /\ UNCHANGED sig
    /\ UNCHANGED <<optVars, sviVars, clipVars, args, num_evals, sig_1, eps_1, new_sig, ret, err, calls, raises,
                   new_eps, attempts, hist>>

GrowEval ==
    /\ pc = "grow_eval"
    /\ InnerEval("grow", 61, 64)

\* lines 68-69 and 82: head of the shrink loop
ShrinkStep ==
    /\ pc = "shrink"
    /\ IF eps < target_eps
       THEN /\ sig' = Over(sig, 4)
            /\ pc' = "shrink_eval"
            /\ UNCHANGED <<eps, bounds, bound_eps, consecutive_updates>>
       ELSE /\ EnterRefinement(<<sig, sig_1>>, <<eps, eps_1>>)
            /\ UNCHANGED sig
    /\ UNCHANGED <<optVars, sviVars, clipVars, args, num_evals, sig_1, eps_1, new_sig, ret, err, calls, raises,
                   new_eps, attempts, hist>>

ShrinkEval ==
    /\ pc = "shrink_eval"
    /\ InnerEval("shrink", 76, 79)

\* -------------------------------------------------------- update_bounds
\* lines 100-101: the line of the first failing assertion, 0 when both hold
\* (variant: assertions disabled)
UpdateBoundsAssertOff(e, be) == 0
UpdateBoundsAssert(e, be) ==
    IF ~(e <= be[1]) THEN 100
    ELSE IF ~(e >= be[2]) THEN 101
    ELSE 0

\* line 103: if eps > target_eps  (the lower bound is updated)
\* (variant: comparison flipped)
UpdatesLowerFlipped(e, t) == e < t
\* (variant: non-strict comparison)
UpdatesLowerOrEqual(e, t) == e >= t
UpdatesLower(e, t) == e > t

\* (variant: both bounds are set to the new point)
UpdateBoundsBoth(s, e, t, b, be, cu) ==
    IF UpdatesLower(e, t)
    THEN [bounds |-> <<s, s>>, bound_eps |-> <<e, be[2]>>,
          consecutive_updates |-> <<cu[1] + 1, 0>>]
    ELSE [bounds |-> <<s, s>>, bound_eps |-> <<be[1], e>>,
          consecutive_updates |-> <<0, cu[2] + 1>>]
\* lines 103-112
UpdateBounds(s, e, t, b, be, cu) ==
    IF UpdatesLower(e, t)
    THEN [bounds |-> <<s, b[2]>>, bound_eps |-> <<e, be[2]>>,
          consecutive_updates |-> <<cu[1] + 1, 0>>]
    ELSE [bounds |-> <<b[1], s>>, bound_eps |-> <<be[1], e>>,
          consecutive_updates |-> <<0, cu[2] + 1>>]

\* --------------------------------------------------- _approximate_sigma
\* while abs(target_eps - eps) > tol and num_evals < maxeval  (line 146)
\* (variant: the budget is not looked at)
LoopCondNoBudget(e, n, t, tl, m) == Abs(t - e) > tl
\* (variant: tolerance one unit too wide)
LoopCondLoose(e, n, t, tl, m) == Abs(t - e) > tl + 1 /\ n < m
LoopCond(e, n, t, tl, m) == Abs(t - e) > tl /\ n < m

\* lines 151-156: b = (bounds[1] - bounds[0]) / (log(bound_eps[0]) - log(bound_eps[1])),
\* a = mean(bounds + b * log(bound_eps)), new_sig = a - b * log(target_eps);
\* as one fraction:
\*   ((s0+s1)*(L0-L1) + (s1-s0)*(L0+L1-2*Lt)) / (2*(L0-L1))
\* <<>> stands for the nan or inf numpy yields when L0 = L1
LogFit(b, be, t) ==
    LET d == Ln(be[1]) - Ln(be[2]) IN
    IF d = 0 \/ b[1] = SigInf \/ b[2] = SigInf THEN <<>>
    ELSE IF d > 0
    THEN << ((b[1] + b[2]) * d + (b[2] - b[1]) * (Ln(be[1]) + Ln(be[2]) - 2 * Ln(t)))
              \div (2 * d) >>
    ELSE << -( ((b[1] + b[2]) * (-d) + (b[2] - b[1]) * (2 * Ln(t) - Ln(be[1]) - Ln(be[2])))
              \div (2 * (-d)) ) >>

\* assert(new_sig >= bounds[0] and new_sig <= bounds[1])  (line 157)
NewSigAssert(ns, b) == ns # <<>> /\ ns[1] >= b[1] /\ ns[1] <= b[2]

\* (variant: a point above the bracket)
MidpointOutside(b) == Min(b[2] + 1, SigInf)
\* np.mean(bounds)  (line 176)
Midpoint(b) == IF b[1] = SigInf \/ b[2] = SigInf THEN SigInf ELSE (b[1] + b[2]) \div 2

MAX_CONSECUTIVE_UPDATES == 2

\* lines 170-171
\* (variant: fires one update early)
AntiStallCondEager(cu, n, m) ==
    (cu[1] >= MAX_CONSECUTIVE_UPDATES \/ cu[2] >= MAX_CONSECUTIVE_UPDATES) /\ n < m
AntiStallCond(cu, n, m) ==
    (cu[1] > MAX_CONSECUTIVE_UPDATES \/ cu[2] > MAX_CONSECUTIVE_UPDATES) /\ n < m

\* lines 158-164 and 177-182: evaluate the oracle at s, then update_bounds
EvalAndUpdate(s, lineEval, next) ==
    \E o \in Outcomes :
    /\ calls' = calls + 1
    /\ IF o = Raise
       THEN /\ raises' = raises + 1
            /\ Raised(Exc("ValueError", lineEval, <<>>))
            /\ UNCHANGED <<eps, num_evals, bounds, bound_eps, consecutive_updates, hist>>
       ELSE /\ UNCHANGED raises
            /\ eps' = o[1]
            /\ hist' = Append(hist, <<s, o[1]>>)
            /\ num_evals' = num_evals + 1
            /\ LET l == UpdateBoundsAssert(o[1], bound_eps) IN
               IF l # 0
               THEN /\ Raised(Exc("AssertionError", l, <<>>))
                    /\ UNCHANGED <<bounds, bound_eps, consecutive_updates>>
               ELSE LET u == UpdateBounds(s, o[1], target_eps, bounds, bound_eps,
                                          consecutive_updates) IN
                    /\ bounds' = u.bounds
                    /\ bound_eps' = u.bound_eps
                    /\ consecutive_updates' = u.consecutive_updates
                    /\ pc' = next
                    /\ UNCHANGED <<ret, err>>

\* lines 146-164: one log-fit step of the refinement loop
RefineIter ==
    /\ pc = "refine"
    /\ LoopCond(eps, num_evals, target_eps, tol, maxeval)
    /\ IF ~(bound_eps[1] >= target_eps) \/ ~(bound_eps[2] <= target_eps)
       THEN /\ Raised(Exc("AssertionError",
                          IF ~(bound_eps[1] >= target_eps) THEN 147 ELSE 148, <<>>))
            /\ UNCHANGED <<new_sig, eps, num_evals, bounds, bound_eps,
                           consecutive_updates, calls, raises, hist>>
       ELSE LET ns == LogFit(bounds, bound_eps, target_eps) IN
            /\ new_sig' = ns
            /\ IF ~NewSigAssert(ns, bounds)
               THEN /\ Raised(Exc("AssertionError", 157, <<>>))
                    /\ UNCHANGED <<eps, num_evals, bounds, bound_eps,
                                   consecutive_updates, calls, raises, hist>>
               ELSE EvalAndUpdate(ns[1], 158, "antistall")
    /\ UNCHANGED <<optVars, sviVars, clipVars, args, sig, sig_1, eps_1, new_eps, attempts>>

\* (variant: leaving the loop is counted as an evaluation)
RefineExitRecount ==
    /\ pc = "refine"
    /\ ~LoopCond(eps, num_evals, target_eps, tol, maxeval)
    /\ pc' = "final"
    /\ num_evals' = num_evals + 1
    /\ UNCHANGED <<optVars, sviVars, clipVars, args, new_eps, attempts, hist, sig, eps, sig_1, eps_1, bounds, bound_eps,
                   consecutive_updates, new_sig, ret, err, calls, raises>>

\* line 146: the loop condition fails
RefineExit ==
    /\ pc = "refine"
    /\ ~LoopCond(eps, num_evals, target_eps, tol, maxeval)
    /\ pc' = "final"
    /\ UNCHANGED <<optVars, sviVars, clipVars, args, new_eps, attempts, hist, sig, num_evals, eps, sig_1, eps_1, bounds, bound_eps,
                   consecutive_updates, new_sig, ret, err, calls, raises>>

\* lines 169-182: the forced midpoint evaluation
AntiStall ==
    /\ pc = "antistall"
    /\ IF AntiStallCond(consecutive_updates, num_evals, maxeval)
       THEN /\ new_sig' = <<Midpoint(bounds)>>
            /\ EvalAndUpdate(Midpoint(bounds), 177, "refine")
       ELSE /\ pc' = "refine"
            /\ UNCHANGED <<new_sig, eps, num_evals, bounds, bound_eps,
                           consecutive_updates, ret, err, calls, raises, hist>>
    /\ UNCHANGED <<optVars, sviVars, clipVars, args, sig, sig_1, eps_1, new_eps, attempts>>

\* idx = bound_eps < target_eps; bounds[idx][0]: position of the first
\* bound whose epsilon is below target_eps, 0 when the selection is empty
FirstBelow(be, t) ==
    IF be[1] < t THEN 1 ELSE IF be[2] < t THEN 2 ELSE 0

\* new_sig = bounds[idx][0]; eps = bound_eps[idx][0]  (lines 186-187)
\* (variant: sigma taken from the lower bound)
SelectedMixed(b, be, i) == <<b[1], be[i]>>
Selected(b, be, i) == <<b[i], be[i]>>

\* lines 184-191
Finalize ==
    /\ pc = "final"
    /\ LET sel == force_smaller /\ eps > target_eps
           i == FirstBelow(bound_eps, target_eps)
       IN
       IF sel /\ i = 0
       THEN /\ Raised(Exc("IndexError", 186, <<>>))
            /\ UNCHANGED <<new_sig, eps>>
       ELSE LET fs == IF sel THEN <<Selected(bounds, bound_eps, i)[1]>> ELSE new_sig
                fe == IF sel THEN Selected(bounds, bound_eps, i)[2] ELSE eps
            IN
            /\ new_sig' = fs
            /\ eps' = fe
            /\ IF ~(~force_smaller \/ fe < target_eps)
               THEN Raised(Exc("AssertionError", 189, <<>>))
               ELSE IF fs = <<>>
               THEN Raised(Exc("UnboundLocalError", 191, <<>>))
               ELSE /\ ret' = <<fs[1], fe, num_evals>>
                    /\ pc' = "returned"
                    /\ UNCHANGED err
    /\ UNCHANGED <<optVars, sviVars, clipVars, args, new_eps, attempts, hist, sig, num_evals, sig_1, eps_1, bounds, bound_eps,
                   consecutive_updates, calls, raises>>

\* values of the optimizer's variables while no optimizer is in use
OptIdle ==
    /\ opt_cfg = [step_size |-> 0, tol |-> 0, stability_check |-> FALSE,
                  alpha_min |-> 0, alpha_max |-> 0]
    /\ opt_state = [x |-> 0, lr |-> 0, x_stepped |-> 0, x_prev |-> 0]
    /\ opt_i = 0
    /\ opt_last = [i |-> -1, g |-> 0, x |-> 0, err_num |-> 0, err_den |-> 1,
                   mult |-> 0, rejected |-> FALSE]

\* values of the variables of the gradient perturbation while it is not in use
SviIdle ==
    /\ svi_state = [optim_state |-> "none", rng_key |-> <<>>]
    /\ svi_in = [state |-> [optim_state |-> "none", rng_key |-> <<>>],
                 px_grads |-> <<>>, px_loss |-> <<>>, dp_scale |-> 0]
    /\ svi_out = [loss |-> <<0, 1>>, grads |-> <<>>]
    /\ svi_draws = <<>>

\* values of the clipper's variables while it is not in use
ClipIdle ==
    /\ clip_c = 0
    /\ clip_in = <<>>
    /\ clip_out = <<>>
    /\ clip_pc = "idle"

Init ==
    /\ target_eps \in TargetVals
    /\ tol \in TolVals
    /\ maxeval \in 1..MaxEval
    /\ force_smaller \in BOOLEAN
    /\ q \in QVals
    /\ pc = "stab"
    /\ sig = InitialSigma(q)
    /\ num_evals = 0
    /\ eps = 0
    /\ sig_1 = 0
    /\ eps_1 = 0
    /\ bounds = <<0, 0>>
    /\ bound_eps = <<0, 0>>
    /\ consecutive_updates = <<0, 0>>
    /\ new_sig = <<>>
    /\ ret = <<>>
    /\ err = NoErr
    /\ calls = 0
    /\ raises = 0
    /\ new_eps = 0
    /\ attempts = 0
    /\ hist = <<>>
    /\ OptIdle
    /\ SviIdle
    /\ ClipIdle

Next ==
    \/ StabilityIter
    \/ StabilityExit
    \/ CheckBudget
    \/ GrowStep
    \/ GrowEval
    \/ ShrinkStep
    \/ ShrinkEval
    \/ RefineIter
    \/ RefineExit
    \/ AntiStall
    \/ Finalize

Spec == Init /\ [][Next]_vars
\* the interpreter keeps executing the call: a step that can be taken is
\* taken eventually
\* (checked for the sampling ratio q of 1 percent)
InitLive == Init /\ q = 1
SpecLive == InitLive /\ [][Next]_vars /\ WF_vars(Next)

\* ------------------------------------------------------------------ adadp
\* src/dppp/optimizers.py.  The parameter tree is one scalar leaf.  Learning
\* rates are integers in units of 1/LrDen, parameters and gradient steps
\* integers in units of 1/XDen, so that half a step of lr is exact; the
\* tolerance is an integer in units of 1/TolDen and a learning-rate
\* multiplier an integer in units of 1/MultDen (rounded towards zero).
XDen == 2 * LrDen
MultCap == 4 * MultDen

\* inputs of adadp and of its update that the model enumerates
StepSizeVals == {LrDen \div 10, LrDen}
AdadpTolVals == {1, TolDen}
AlphaVals == {<<(9 * MultDen) \div 10, (11 * MultDen) \div 10>>,
              <<(19 * MultDen) \div 20, (21 * MultDen) \div 20>>,
              <<MultDen \div 2, 2 * MultDen>>}
X0Vals == {0, 3 * XDen}
GVals == {-2, 1, 4}
StepIndices == 0..(MaxSteps - 1)

\* the cold state of the last-update record
NoUpdate == [i |-> -1, g |-> 0, x |-> 0, err_num |-> 0, err_den |-> 1,
             mult |-> 0, rejected |-> FALSE]

\* (variant: x_stepped starts at x0)
AdadpInitStepped(cfg, x0) ==
    [x |-> x0, lr |-> cfg.step_size, x_stepped |-> x0, x_prev |-> x0]
\* init(x0), lines 34-37: make_schedule of a scalar is the constant schedule
AdadpInit(cfg, x0) ==
    [x |-> x0, lr |-> cfg.step_size, x_stepped |-> 0, x_prev |-> x0]

\* compute_update_step, lines 42-43; the step size is given in 1/XDen, so
\* lr stands for 0.5 * lr and 2 * lr for lr
ComputeUpdateStep(x, g, step) == x - step * g
\* variant: the half step is as long as the full step
HalfOfWhole(lr) == 2 * lr
HalfOf(lr) == lr
FullOf(lr) == 2 * lr

\* err_e of lines 54-63 for one scalar leaf, as the fraction ErrNum / ErrDen:
\* sqrt(((x_full - x_halfs) / maximum(1., x_full)) ** 2)
ErrNum(x_full, x_halfs) == Abs(x_full - x_halfs)
ErrDen(x_full) == Max(XDen, x_full)

\* variant: every step counts as too inaccurate
ErrAboveTolAlways(cfg, en, ed) == TRUE
\* err_e > tol, line 69
ErrAboveTol(cfg, en, ed) == en * TolDen > cfg.tol * ed

\* sqrt(tol / err_e) in 1/MultDen, rounded towards zero; a value of MultCap
\* or more (inf when err_e is 0) is reported as MultCap
SqrtRatio(cfg, en, ed) ==
    IF en = 0 THEN MultCap
    ELSE CHOOSE m \in 0..MultCap :
            /\ m * m * en * TolDen <= MultDen * MultDen * cfg.tol * ed
            /\ \/ m = MultCap
               \/ (m + 1) * (m + 1) * en * TolDen
                      > MultDen * MultDen * cfg.tol * ed

\* (variant: a lower literal of 0.5)
LowerMultHalf == MultDen \div 2
\* the literals 0.9 and 1.1 of lines 65-67
LowerMult == (9 * MultDen) \div 10
UpperMult == (11 * MultDen) \div 10

\* np.minimum(np.maximum(np.sqrt(tol/err_e), 0.9), 1.1), lines 65-67: the
\* alpha_min and alpha_max of cfg are not read
Multiplier(cfg, en, ed) ==
    Min(Max(SqrtRatio(cfg, en, ed), LowerMult), UpperMult)

\* lr * multiplier, line 65
NewLr(lr, mult) == (lr * mult) \div MultDen

\* update(i, g, state), lines 39-71
Update(i, g, state) ==
    LET new_x == ComputeUpdateStep(state.x, g, HalfOf(state.lr))
    IN  IF i % 2 = 0
        THEN [x |-> new_x, lr |-> state.lr,
              x_stepped |-> ComputeUpdateStep(state.x, g, FullOf(state.lr)),
              x_prev |-> state.x]
        ELSE LET en == ErrNum(state.x_stepped, new_x)
                 ed == ErrDen(state.x_stepped)
                 new_lr == NewLr(state.lr, Multiplier(opt_cfg, en, ed))
             IN  [x |-> IF opt_cfg.stability_check /\ ErrAboveTol(opt_cfg, en, ed)
                        THEN state.x_prev ELSE new_x,
                  lr |-> new_lr,
                  x_stepped |-> state.x_stepped,
                  x_prev |-> state.x_prev]

\* what an update with index i and gradient g of the parameters state.x
\* measures (history)
Measured(i, g, state) ==
    LET new_x == ComputeUpdateStep(state.x, g, HalfOf(state.lr))
        en == ErrNum(state.x_stepped, new_x)
        ed == ErrDen(state.x_stepped)
    IN  IF i % 2 = 0
        THEN [i |-> i, g |-> g, x |-> state.x, err_num |-> 0, err_den |-> 1,
              mult |-> MultDen, rejected |-> FALSE]
        ELSE [i |-> i, g |-> g, x |-> state.x, err_num |-> en, err_den |-> ed,
              mult |-> Multiplier(opt_cfg, en, ed),
              rejected |-> opt_cfg.stability_check
                           /\ ErrAboveTol(opt_cfg, en, ed)]

\* values of the calibration's variables while no calibration is running
CalIdle ==
    /\ target_eps = 0 /\ tol = 0 /\ maxeval = 0 /\ force_smaller = FALSE
    /\ q = 0 /\ pc = "idle" /\ sig = 0 /\ num_evals = 0 /\ eps = 0
    /\ sig_1 = 0 /\ eps_1 = 0 /\ bounds = <<0, 0>> /\ bound_eps = <<0, 0>>
    /\ consecutive_updates = <<0, 0>> /\ new_sig = <<>> /\ ret = <<>>
    /\ err = NoErr /\ calls = 0 /\ raises = 0 /\ new_eps = 0
    /\ attempts = 0 /\ hist = <<>>

\* update is called with an arbitrary step index and an arbitrary gradient
AdadpUpdate ==
    /\ opt_i < MaxSteps
    /\ \E i \in StepIndices, g \in GVals :
        /\ opt_state' = Update(i, g, opt_state)
        /\ opt_last' = Measured(i, g, opt_state)
    /\ opt_i' = opt_i + 1
    /\ UNCHANGED <<opt_cfg, calVars, sviVars, clipVars>>

InitAdadp ==
    /\ CalIdle
    /\ SviIdle
    /\ ClipIdle
    /\ \E a \in AlphaVals :
        opt_cfg \in [step_size : StepSizeVals, tol : AdadpTolVals,
                     stability_check : BOOLEAN,
                     alpha_min : {a[1]}, alpha_max : {a[2]}]
    /\ \E x0 \in X0Vals : opt_state = AdadpInit(opt_cfg, x0)
    /\ opt_i = 0
    /\ opt_last = NoUpdate

NextAdadp ==
    \/ AdadpUpdate

SpecAdadp == InitAdadp /\ [][NextAdadp]_vars
\* ------------------------------------------------- gradient perturbation
\* DPSVI._combine_and_transform_gradient (dppp/svi.py), the NoiseInjector of
\* the specification.  A random key is the path of splits that led to it
\* from a seed key: split(key, n) yields the n children of key, all distinct
\* and distinct from every other key in use.  A gradient tree is the
\* sequence of its leaves, a per-example leaf the sequence of its values
\* over the batch; a returned value is the fraction <<numerator, batch size>>.
PxGradsVals == {<< <<0, 0>> >>,
                << <<0, 0>>, <<0, 0>> >>,
                << <<1, 2>>, <<-1, 0>> >>}
PxLossVals == {<<0, 0>>, <<0, 1>>, <<1, 3>>}
DpScaleVals == {1, 2}
NoiseVals == {-1, 1}
SeedKeys == {<<0>>, <<1>>}
OptimStates == {"optim_a", "optim_b"}

\* jax.random.split(key, n)
Split(key, n) == [j \in 1..n |-> Append(key, j)]
\* variants: the incoming key is handed on / is used for the drawing itself
AdvancedKeyStale(key) == key
StepKeyReused(key) == key
\* the advanced key that is returned in the new state
AdvancedKey(key) == Split(key, 2)[1]
\* the key of this call, from which the noise of the call is derived
StepKey(key) == Split(key, 2)[2]
\* one key per gradient site
SiteKeys(key, n) == Split(StepKey(key), n)

RECURSIVE SumSeq(_)
SumSeq(v) == IF v = <<>> THEN 0 ELSE v[1] + SumSeq(Tail(v))
\* np.mean of the per-example losses
Mean(v) == <<SumSeq(v), Len(v)>>
\* the per-example gradients summed over the batch, site by site
CombineGradient(px_grads) ==
    [j \in DOMAIN px_grads |-> SumSeq(px_grads[j])]
\* perturb: (summed gradient + dp_scale * standard normal draw) / batch_size
Perturb(summed, batch_size, dp_scale, noise) ==
    [j \in DOMAIN summed |-> <<summed[j] + dp_scale * noise[j], batch_size>>]
\* jax.tree_structure of a tree of leaves
TreeStructure(tree) == DOMAIN tree

CombineAndTransformGradient ==
    /\ Len(svi_draws) < MaxCalls
    /\ \E px_grads \in PxGradsVals, px_loss \in PxLossVals,
          dp_scale \in DpScaleVals :
        \E noise \in [DOMAIN px_grads -> NoiseVals] :
            /\ svi_in' = [state |-> svi_state, px_grads |-> px_grads,
                          px_loss |-> px_loss, dp_scale |-> dp_scale]
            /\ svi_out' = [loss |-> Mean(px_loss),
                           grads |-> Perturb(CombineGradient(px_grads),
                                             Len(px_loss), dp_scale, noise)]
            /\ svi_draws' = Append(svi_draws,
                   [incoming |-> svi_state.rng_key,
                    returned |-> AdvancedKey(svi_state.rng_key),
                    keys |-> SiteKeys(svi_state.rng_key, Len(px_grads))])
    /\ svi_state' = [optim_state |-> svi_state.optim_state,
                     rng_key |-> AdvancedKey(svi_state.rng_key)]
    /\ UNCHANGED <<calVars, optVars, clipVars>>

InitSvi ==
    /\ CalIdle
    /\ OptIdle
    /\ ClipIdle
    /\ svi_state \in [optim_state : OptimStates, rng_key : SeedKeys]
    /\ svi_in = [state |-> svi_state, px_grads |-> <<>>, px_loss |-> <<>>,
                 dp_scale |-> 0]
    /\ svi_out = [loss |-> <<0, 1>>, grads |-> <<>>]
    /\ svi_draws = <<>>

NextSvi ==
    \/ CombineAndTransformGradient

SpecSvi == InitSvi /\ [][NextSvi]_vars

\* ------------------------------------------------------ gradient clipping
\* The GradientClipper of the specification (dppp/svi.py).  A per-example
\* gradient tree is the sequence of its leaves, a leaf the sequence of its
\* integer elements; an element of the result is the fraction
\* <<numerator, denominator>>.  The inputs are the trees of one leaf of two
\* elements and one leaf of one element whose combined L2 norm is an
\* integer, so that the square root is exact.
CompVals == {-6, -3, 0, 2, 3, 4, 6, 8}
ClipThresholds == {5, 10}

\* sum of the squares of all elements of all leaves
NormSq(tree) ==
    SumSeq([j \in DOMAIN tree |->
              SumSeq([k \in DOMAIN tree[j] |-> tree[j][k] * tree[j][k]])])
IsSquare(n) == \E r \in 0..n : r * r = n
ISqrt(n) == CHOOSE r \in 0..n : r * r <= n /\ (r + 1) * (r + 1) > n
\* the L2 norm over all components of the tree
FullNorm(tree) == ISqrt(NormSq(tree))

ClipInputs ==
    {t \in {<< <<a, b>>, <<c>> >> :
               a \in CompVals, b \in CompVals, c \in CompVals} :
        IsSquare(NormSq(t))}

\* variant: only a norm above twice the threshold is clipped
ExceedsThresholdLate(norm, c) == norm > 2 * c
\* the norm exceeds ClippingThreshold
ExceedsThreshold(norm, c) == norm > c

\* clip(per_example_gradient): the whole tree times c / norm when the norm
\* exceeds c, the tree itself otherwise
Clip(tree, c) ==
    LET norm == FullNorm(tree)
    IN  IF ExceedsThreshold(norm, c)
        THEN [j \in DOMAIN tree |->
                [k \in DOMAIN tree[j] |-> <<tree[j][k] * c, norm>>]]
        ELSE [j \in DOMAIN tree |->
                [k \in DOMAIN tree[j] |-> <<tree[j][k], 1>>]]

ClipGradient ==
    /\ clip_pc = "ready"
    /\ clip_out' = Clip(clip_in, clip_c)
    /\ clip_pc' = "done"
    /\ UNCHANGED <<clip_c, clip_in, calVars, optVars, sviVars>>

InitClip ==
    /\ CalIdle
    /\ OptIdle
    /\ SviIdle
    /\ clip_c \in ClipThresholds
    /\ clip_in \in ClipInputs
    /\ clip_out = <<>>
    /\ clip_pc = "ready"

NextClip ==
    \/ ClipGradient

SpecClip == InitClip /\ [][NextClip]_vars

\* ---------------------------------------------------------------- claims
Terminal == pc \in {"returned", "raised"}
\* the bracketing phase has returned its bracket
Bracketed ==
    \/ pc \in {"refine", "antistall", "final", "returned"}
    \/ pc = "raised" /\ err.line >= 100

\* C1: if every oracle call raises ValueError, the call fails with the
\* budget-exhausted RuntimeError after exactly maxeval oracle evaluations:
\* it never evaluates more than maxeval times, never leaves the stability
\* loop before maxeval evaluations and ends in RuntimeError.
C1_AllRaiseExhaustsExactly ==
    (raises = calls) =>
        /\ calls <= maxeval
        /\ pc \in {"stab", "budget", "raised"}
        /\ pc = "budget" => calls = maxeval
        /\ pc = "raised" => (err.type = "RuntimeError" /\ calls = maxeval)
C1_Witness ==
    pc = "raised" /\ raises = calls /\ calls = maxeval /\ maxeval >= 3

\* C2: once the evaluation budget is used up in the grow or shrink phase
\* while target_eps has not been crossed, the next step raises the
\* budget-exhausted error (sigma is not changed without an evaluation).
C2_BudgetStopsGrowShrink ==
    [][ ( /\ num_evals >= maxeval
          /\ \/ pc = "grow" /\ eps >= target_eps
             \/ pc = "shrink" /\ eps < target_eps )
        => (pc' = "raised" /\ err'.type = "RuntimeError") ]_vars

\* C3: the number of oracle evaluations performed never exceeds maxeval.
C3_EvalsWithinBudget == calls <= maxeval

\* C4: once a bracket exists, bound_eps[0] >= target_eps >= bound_eps[1]
\* holds (after bracketing and after every update of the refinement phase),
\* and the loop-head assertions of lines 147-148 never fail.
C4_BracketInvariant ==
    /\ Bracketed => (bound_eps[1] >= target_eps /\ target_eps >= bound_eps[2])
    /\ pc = "raised" => err.line \notin {147, 148}
C4_Witness ==
    /\ pc = "refine"
    /\ consecutive_updates[1] >= 1
    /\ bound_eps[1] > target_eps
    /\ calls > raises + 3

\* C5: a call with force_smaller=False that returns, returns an epsilon
\* within tol of target_eps unless the evaluation count reached maxeval.
C5_TolOrBudget ==
    (pc = "returned" /\ ~force_smaller) =>
        (Abs(ret[2] - target_eps) <= tol \/ ret[3] >= maxeval)
C5_Witness ==
    /\ pc = "returned" /\ ~force_smaller
    /\ ret[2] # target_eps
    /\ Abs(ret[2] - target_eps) <= tol
    /\ ret[3] < maxeval

\* C6: with force_smaller=True, once bracketing has succeeded the call
\* returns an epsilon strictly below target_eps; it can fail only through
\* the oracle (a ValueError of the oracle, or an epsilon outside the bracket).
\* Stated for the calls that made at least one refinement evaluation.
C6_ForceSmallerReturns ==
    (force_smaller /\ Bracketed /\ new_sig # <<>>) =>
        /\ pc = "raised" => err.line \in {100, 101, 158, 177}
        /\ pc = "returned" => ret[2] < target_eps

C9_BracketingOnlyBudgetError ==
    (pc = "raised" /\ ~Bracketed) => err.type = "RuntimeError"

\* C10: a refinement evaluation (log-fit point or midpoint) that returns an
\* epsilon outside [bound_eps[1], bound_eps[0]] aborts the call: bounds,
\* bound_eps and consecutive_updates keep their values, nothing is returned.
C10_OutOfBracketAborts ==
    [][ ( /\ pc \in {"refine", "antistall"}
          /\ calls' = calls + 1 /\ raises' = raises
          /\ (eps' > bound_eps[1] \/ eps' < bound_eps[2]) )
        => ( /\ pc' = "raised" /\ ret' = <<>>
             /\ UNCHANGED <<bounds, bound_eps, consecutive_updates>> ) ]_vars
C10_Witness ==
    /\ pc = "raised" /\ err.type = "AssertionError" /\ err.line \in {100, 101}
    /\ (eps > bound_eps[1] \/ eps < bound_eps[2])
    /\ new_sig = <<Midpoint(bounds)>>
    /\ consecutive_updates[2] > MAX_CONSECUTIVE_UPDATES
\* --------------------------------------------- claims, calibration (cont.)
\* update_bounds ran to completion in this step
Updated ==
    pc \in {"refine", "antistall"} /\ num_evals' = num_evals + 1 /\ pc' # "raised"
UpdatedLower ==
    /\ bounds' = <<new_sig'[1], bounds[2]>>
    /\ bound_eps' = <<eps', bound_eps[2]>>
    /\ consecutive_updates' = <<consecutive_updates[1] + 1, 0>>
UpdatedUpper ==
    /\ bounds' = <<bounds[1], new_sig'[1]>>
    /\ bound_eps' = <<bound_eps[1], eps'>>
    /\ consecutive_updates' = <<0, consecutive_updates[2] + 1>>

\* C15 (as claimed): update_bounds replaces the lower bound and its epsilon
\* when the new epsilon is >= target_eps and the upper bound otherwise, keeps
\* the other bound, adds one to the updated side's counter and resets the
\* other counter.
C15_LowerWhenAtLeastTarget ==
    [][ Updated => IF eps' >= target_eps THEN UpdatedLower ELSE UpdatedUpper ]_vars
\* C15 (amended): the lower bound is replaced when the new epsilon is
\* strictly above target_eps; an epsilon equal to target_eps replaces the
\* upper bound.
C15_LowerWhenAboveTarget ==
    [][ Updated => IF eps' > target_eps THEN UpdatedLower ELSE UpdatedUpper ]_vars
C15_Witness ==
    /\ pc = "antistall"
    /\ eps = target_eps
    /\ bound_eps[2] = target_eps /\ bounds[2] = new_sig[1]
    /\ consecutive_updates[2] >= 1 /\ consecutive_updates[1] = 0
    /\ bound_eps[1] > target_eps

Range(h) == {h[k] : k \in DOMAIN h}
\* the most recently evaluated point whose epsilon was below t, <<>> if none
LastBelow(h, t) ==
    LET I == {k \in DOMAIN h : h[k][2] < t} IN
    IF I = {} THEN <<>> ELSE h[CHOOSE k \in I : \A j \in I : j <= k]

\* C16 (as claimed): with force_smaller and the last evaluated epsilon above
\* target_eps, the returned pair is the upper bound of the bracket and that
\* is the most recently evaluated point with an epsilon below target_eps;
\* otherwise the returned pair is the last evaluated point.
C16_ReturnsMostRecentBelow ==
    [][ (pc = "final" /\ pc' = "returned") =>
          IF force_smaller /\ eps > target_eps
          THEN /\ <<ret'[1], ret'[2]>> = <<bounds[2], bound_eps[2]>>
               /\ <<ret'[1], ret'[2]>> = LastBelow(hist, target_eps)
          ELSE <<ret'[1], ret'[2]>> = hist[Len(hist)] ]_vars
\* C16 (amended): the returned pair is then the upper bound of the bracket,
\* an evaluated point with an epsilon strictly below target_eps (not
\* necessarily the most recently evaluated such point); otherwise the
\* returned pair is the last evaluated point.
C16_ReturnsUpperBound ==
    [][ (pc = "final" /\ pc' = "returned") =>
          IF force_smaller /\ eps > target_eps
          THEN /\ <<ret'[1], ret'[2]>> = <<bounds[2], bound_eps[2]>>
               /\ ret'[2] < target_eps
               /\ <<ret'[1], ret'[2]>> \in Range(hist)
          ELSE <<ret'[1], ret'[2]>> = hist[Len(hist)] ]_vars
C16_Witness ==
    /\ pc = "returned" /\ force_smaller
    /\ hist[Len(hist)][2] > target_eps
    /\ <<ret[1], ret[2]>> = <<bounds[2], bound_eps[2]>>
    /\ <<ret[1], ret[2]>> # LastBelow(hist, target_eps)

\* C17: after the log-fit update exactly one more evaluation is made, at the
\* arithmetic midpoint of the bracket and applied by update_bounds, if and
\* only if a consecutive-update counter exceeds 2 and num_evals < maxeval;
\* otherwise nothing is evaluated; the log-fit step makes at most one
\* evaluation.
C17_MidpointIffStalled ==
    [][ /\ pc = "antistall" =>
             IF /\ consecutive_updates[1] > 2 \/ consecutive_updates[2] > 2
                /\ num_evals < maxeval
             THEN /\ calls' = calls + 1
                  /\ new_sig' = <<Midpoint(bounds)>>
                  /\ pc' # "raised" =>
                       ( /\ hist' = Append(hist, <<Midpoint(bounds), eps'>>)
                         /\ IF eps' > target_eps THEN UpdatedLower ELSE UpdatedUpper )
             ELSE /\ calls' = calls
                  /\ UNCHANGED <<bounds, bound_eps, consecutive_updates, new_sig, eps>>
        /\ pc = "refine" => calls' \in {calls, calls + 1} ]_vars
C17_Witness ==
    pc = "refine" /\ consecutive_updates[1] > 3 /\ new_sig = <<bounds[1]>>

\* the evaluated points are those of a (non-strictly) decreasing function
Mono(h) ==
    \A i, j \in DOMAIN h :
        /\ h[i][1] < h[j][1] => h[i][2] >= h[j][2]
        /\ h[i][1] = h[j][1] => h[i][2] = h[j][2]

\* C18: for a monotonically decreasing oracle the forced midpoint evaluation
\* updates the neglected bound: after it the neglected side's counter is 1
\* and the stalled side's counter is 0.
C18_MidpointUpdatesNeglected ==
    [][ ( /\ pc = "antistall" /\ pc' = "refine" /\ calls' = calls + 1
          /\ Mono(hist') )
        => IF consecutive_updates[1] > MAX_CONSECUTIVE_UPDATES
           THEN consecutive_updates' = <<0, 1>>
           ELSE consecutive_updates' = <<1, 0>> ]_vars

\* C19: the sigma of the log-linear fit lies within the bracket, so the
\* assertion of line 157 never fails.
C19_FitWithinBracket ==
    ~(pc = "raised" /\ err.type = "AssertionError" /\ err.line = 157)

RECURSIVE Pow10(_, _)
\* s * 10^k in sigma arithmetic
Pow10(s, k) == IF k = 0 THEN s ELSE Times(Pow10(s, k - 1), 10)

\* the stability loop was left with a stable point (sig_1, eps_1 assigned)
Accepted ==
    \/ pc \in {"grow", "grow_eval", "shrink", "shrink_eval"}
    \/ Bracketed
    \/ pc = "raised" /\ err.line \in {61, 64, 76, 79}

\* C20: the first bracket point is a sigma at which the oracle returned, at
\* precision 1 and 2, values within 10% relative error of each other, and it
\* equals initial_sigma * 10^k, k the number of failed attempts.
C20_AcceptedPoint ==
    Accepted =>
        /\ Abs(new_eps - eps_1) * 10 <= new_eps
        /\ <<sig_1, eps_1>> \in Range(hist)
        /\ sig_1 = Pow10(InitialSigma(q), attempts)
C20_Witness ==
    pc = "grow" /\ attempts = 2 /\ eps_1 # new_eps /\ sig_1 < SigInf

\* ------------------------------------------------------- claims, adadp
\* an update with odd step index is taken
OddUpdate == opt_i' = opt_i + 1 /\ opt_last'.i % 2 = 1
\* clamp(v, lo, hi)
Clamp(v, lo, hi) == Min(Max(v, lo), hi)

\* C11: in every update with odd step index the learning-rate multiplier
\* lies in [alpha_min, alpha_max] and equals
\* clamp(sqrt(tol/err), alpha_min, alpha_max) for the alpha_min and
\* alpha_max given to adadp, and the new learning rate is the old one times
\* that multiplier.
C11_MultiplierWithinAlphas ==
    [][ OddUpdate =>
          /\ opt_cfg.alpha_min <= opt_last'.mult
          /\ opt_last'.mult <= opt_cfg.alpha_max
          /\ opt_last'.mult =
                Clamp(SqrtRatio(opt_cfg, opt_last'.err_num, opt_last'.err_den),
                      opt_cfg.alpha_min, opt_cfg.alpha_max)
          /\ opt_state'.lr = NewLr(opt_state.lr, opt_last'.mult) ]_vars

\* -------------------------------------- claims, gradient perturbation
\* a perturbation call is made
SviCall == Len(svi_draws') = Len(svi_draws) + 1

\* C12: _combine_and_transform_gradient changes only the random key of the
\* SVI state: the returned optim_state is the incoming one, the returned
\* rng_key differs from the incoming one, the returned loss is the mean of
\* the per-example losses and the returned gradient has the tree structure
\* of the per-example gradients.
C12_OnlyKeyChanges ==
    [][ SviCall =>
          /\ svi_state'.optim_state = svi_state.optim_state
          /\ svi_state'.rng_key # svi_state.rng_key
          /\ svi_out'.loss[1] = SumSeq(svi_in'.px_loss)
          /\ svi_out'.loss[2] = Len(svi_in'.px_loss)
          /\ TreeStructure(svi_out'.grads) = TreeStructure(svi_in'.px_grads)
          /\ svi_in'.state = svi_state ]_vars
C12_Witness ==
    /\ Len(svi_draws) = 1
    /\ svi_in.px_loss = <<1, 3>>
    /\ Len(svi_out.grads) = 2
    /\ svi_state.optim_state = "optim_b"

\* the keys the noise of call c was drawn with
DrawKeys(c) == {svi_draws[c].keys[j] : j \in DOMAIN svi_draws[c].keys}

\* C13: over a sequence of calls each of which receives the state returned
\* by the previous one, no two calls draw noise from the same key, no two
\* sites of one call draw from the same key, and a key that noise is drawn
\* from is neither the incoming nor the returned key of its call.
C13_KeysNeverReused ==
    /\ \A c, d \in DOMAIN svi_draws :
          c # d => DrawKeys(c) \cap DrawKeys(d) = {}
    /\ \A c \in DOMAIN svi_draws :
          /\ \A i, j \in DOMAIN svi_draws[c].keys :
                i # j => svi_draws[c].keys[i] # svi_draws[c].keys[j]
          /\ svi_draws[c].incoming \notin DrawKeys(c)
          /\ svi_draws[c].returned \notin DrawKeys(c)
          /\ c > 1 => svi_draws[c].incoming = svi_draws[c - 1].returned
C13_Witness ==
    /\ Len(svi_draws) = MaxCalls
    /\ \A c \in DOMAIN svi_draws : Len(svi_draws[c].keys) = 2
    /\ svi_state.rng_key = svi_draws[MaxCalls].returned

\* ------------------------------------------------ claims, gradient clipping
\* the positions <<leaf, element>> of a tree
Positions(tree) ==
    {p \in (DOMAIN tree) \X (1..2) : p[2] \in DOMAIN tree[p[1]]}
\* the squared norm of a clipped tree whose elements share the denominator
\* den, times den squared
OutNormSq(out) ==
    SumSeq([j \in DOMAIN out |->
              SumSeq([k \in DOMAIN out[j] |-> out[j][k][1] * out[j][k][1]])])
OutDen(out) == out[1][1][2]

\* C14: the clipper returns the gradient unchanged when its combined L2 norm
\* is at most the threshold (norm zero included) and the gradient times
\* threshold / norm otherwise, so that the clipped norm equals the threshold
\* and the direction is unchanged; the clipped norm is never above the
\* threshold.
C14_ClipToThreshold ==
    clip_pc = "done" =>
        LET norm == FullNorm(clip_in)
            den == OutDen(clip_out)
        IN  /\ DOMAIN clip_out = DOMAIN clip_in
            /\ \A p \in Positions(clip_in) :
                  LET g == clip_in[p[1]][p[2]]
                      o == clip_out[p[1]][p[2]]
                  IN  /\ o[2] = den /\ den > 0
                      /\ IF norm <= clip_c
                         THEN o[1] = g * o[2]
                         ELSE o[1] * norm = g * clip_c * o[2]
            /\ norm > clip_c =>
                  OutNormSq(clip_out) = clip_c * clip_c * den * den
            /\ OutNormSq(clip_out) <= clip_c * clip_c * den * den
C14_Witness ==
    /\ clip_pc = "done"
    /\ FullNorm(clip_in) = 2 * clip_c
    /\ clip_in[2][1] # 0
    /\ clip_out[2][1][1] * 2 = clip_in[2][1] * clip_out[2][1][2]

\* --------------------------------------------- claims, calibration (cont.)
\* sigma after m multiplications / divisions by 4 (lines 54 and 69)
RECURSIVE Grown(_, _)
Grown(s, m) == IF m = 0 THEN s ELSE Times(Grown(s, m - 1), 4)
RECURSIVE Shrunk(_, _)
Shrunk(s, m) == IF m = 0 THEN s ELSE Over(Shrunk(s, m - 1), 4)

\* get_bracketing_bounds returns its bracket (lines 66 and 82)
BracketReturned == pc \in {"grow", "shrink"} /\ pc' = "refine"
\* an evaluation of the grow / shrink phase returns a value
PhaseEvaluated ==
    /\ pc \in {"grow_eval", "shrink_eval"}
    /\ num_evals' = num_evals + 1
    /\ pc' \in {"grow", "shrink"}

\* C21: when bracketing succeeds, the bracket is (sig_1, sig_1 * 4^m) if
\* eps(sig_1) >= target_eps and (sig_1 / 4^m, sig_1) otherwise, where m >= 1
\* is the number of evaluations of the grow / shrink phase; these
\* evaluations were made at sig_1 * 4^j (sig_1 / 4^j), j = 1..m, the m-th is
\* the first whose epsilon lies on the other side of target_eps, and the
\* bracket epsilons are the oracle's values at the two end points.
C21_GeometricBracket ==
    [][ /\ PhaseEvaluated => hist' = Append(hist, <<sig, eps'>>)
        /\ BracketReturned =>
             \E a \in 1..(Len(hist) - 1) :
                LET m == Len(hist) - a
                    up == eps_1 >= target_eps
                IN  /\ hist[a] = <<sig_1, eps_1>>
                    /\ up <=> pc = "grow"
                    /\ m <= num_evals - 2
                    /\ \A j \in 1..m :
                          hist[a + j][1] = IF up THEN Grown(sig_1, j)
                                                 ELSE Shrunk(sig_1, j)
                    /\ \A j \in 0..(m - 1) :
                          (hist[a + j][2] >= target_eps) <=> up
                    /\ (hist[a + m][2] < target_eps) <=> up
                    /\ bounds' = IF up THEN <<sig_1, Grown(sig_1, m)>>
                                       ELSE <<Shrunk(sig_1, m), sig_1>>
                    /\ bound_eps' = IF up THEN <<eps_1, hist[a + m][2]>>
                                          ELSE <<hist[a + m][2], eps_1>>
      ]_vars
C21_Witness ==
    /\ pc = "refine" /\ new_sig = <<>>
    /\ Len(hist) = 3
    /\ bounds = <<Shrunk(sig_1, 2), sig_1>>
    /\ bound_eps[1] > target_eps
    /\ hist[2][2] < eps_1


\* the call failed after the refinement loop was left (lines 184-191)
FailedAfterLoop == pc = "raised" /\ err.line > 182

\* the body of the refinement loop never ran
ZeroIterations == Bracketed /\ consecutive_updates = <<0, 0>>

\* C24: a call whose bracketing phase succeeds returns a triple
\* (sigma, eps, n) in which sigma is a point the oracle was evaluated at and
\* eps the value it returned there; stated for the calls in which the body
\* of the refinement loop ran zero times.
C24_ReturnsEvaluatedPoint ==
    (ZeroIterations /\ (pc = "returned" \/ FailedAfterLoop)) =>
        /\ pc = "returned"
        /\ <<ret[1], ret[2]>> \in Range(hist)
        /\ ret[3] = num_evals

\* C25: for a (non-strictly) monotonically decreasing oracle the two
\* assertions of update_bounds (lines 100 and 101) never fail, neither for
\* the log-fit point nor for the midpoint.
C25_MonotoneWithinBracket ==
    Mono(hist) =>
        ~(pc = "raised" /\ err.type = "AssertionError"
                        /\ err.line \in {100, 101})
C25_Witness ==
    /\ Mono(hist)
    /\ pc = "refine"
    /\ consecutive_updates = <<0, 1>>
    /\ new_sig = <<bounds[2]>>
    /\ Len(hist) = 6 /\ num_evals = 7
    /\ hist[6][2] < hist[5][2]

\* a refinement evaluation was applied by update_bounds
BoundsUpdated ==
    /\ pc \in {"refine", "antistall"}
    /\ num_evals' = num_evals + 1
    /\ pc' \in {"refine", "antistall"}

\* C26: in the refinement phase every update replaces exactly one bound,
\* the lower bound never decreases, the upper bound never increases,
\* bounds[0] <= bounds[1] holds after every update, and a midpoint update
\* at least halves the width of the bracket (up to the rounding of the
\* midpoint to the sigma grid).
C26_BracketShrinks ==
    [][ BoundsUpdated =>
          /\ \/ bounds'[1] = bounds[1] /\ bounds'[2] = new_sig'[1]
             \/ bounds'[2] = bounds[2] /\ bounds'[1] = new_sig'[1]
          /\ bounds'[1] >= bounds[1]
          /\ bounds'[2] <= bounds[2]
          /\ bounds'[1] <= bounds'[2]
          /\ pc = "antistall" =>
                2 * (bounds'[2] - bounds'[1]) <= (bounds[2] - bounds[1]) + 1
      ]_vars
C26_Witness ==
    /\ pc = "refine"
    /\ consecutive_updates = <<4, 0>>
    /\ Len(hist) = 6 /\ num_evals = 7
    /\ new_sig = <<bounds[1]>>
    /\ bounds[1] < bounds[2]
    /\ hist[3][1] < hist[4][1] /\ hist[4][1] < hist[5][1]
    /\ hist[5][1] < bounds[1]

\* C27: when the calibration returns, the number of evaluations it returns
\* equals the number of times the oracle was invoked, the invocations that
\* raised ValueError included.
C27_CountsInvocations ==
    pc = "returned" => ret[3] = calls
C27_Witness ==
    pc = "returned" /\ raises = 2 /\ ret[3] = calls /\ Len(hist) = 3


\* the call is inside the refinement phase (lines 146-191)
InRefinement == pc \in {"refine", "antistall", "final"}
\* one pass of the loop body begins and its log-fit evaluation returns
LogFitEvaluated == pc = "refine" /\ pc' = "antistall"
\* the second half of the loop body (lines 169-182) completes
AntiStallDone == pc = "antistall" /\ pc' = "refine"

\* C28: once bracketing has succeeded the refinement loop terminates: every
\* iteration starts with num_evals < maxeval, makes one log-fit evaluation
\* and at most one midpoint evaluation, so that the count strictly increases
\* and never exceeds maxeval, and the call eventually returns or raises.
C28_RefinementTerminates ==
    /\ [][ /\ LogFitEvaluated =>
                /\ num_evals < maxeval
                /\ num_evals' = num_evals + 1
                /\ calls' = calls + 1
           /\ AntiStallDone =>
                /\ num_evals' \in {num_evals, num_evals + 1}
                /\ calls' - calls = num_evals' - num_evals
                /\ num_evals' <= maxeval
         ]_vars
    /\ (InRefinement ~> Terminal)
C28_Witness ==
    /\ pc = "returned"
    /\ ret[3] = maxeval
    /\ consecutive_updates = <<0, 1>>
    /\ Len(hist) = 6
    /\ Abs(ret[2] - target_eps) > tol

\* ------------------------------------------------ claims, adadp (cont.)
\* an update with even step index is taken
EvenUpdate == opt_i' = opt_i + 1 /\ opt_last'.i % 2 = 0

\* C22: an update with even step index sets the parameters to
\* x - 0.5*lr*g, stores x - lr*g as x_stepped and the pre-step parameters x
\* as x_prev, and leaves the learning rate unchanged.
C22_EvenStep ==
    [][ EvenUpdate =>
          LET g == opt_last'.g
          IN  /\ 2 * LrDen * (opt_state.x - opt_state'.x)
                    = XDen * opt_state.lr * g
              /\ LrDen * (opt_state.x - opt_state'.x_stepped)
                    = XDen * opt_state.lr * g
              /\ opt_state'.x_prev = opt_state.x
              /\ opt_state'.lr = opt_state.lr ]_vars
C22_Witness ==
    /\ opt_i = 3
    /\ opt_last.i = 2
    /\ opt_last.g # 0
    /\ opt_state.lr # opt_cfg.step_size
    /\ opt_state.x_prev = opt_last.x
    /\ opt_state.x_stepped # opt_state.x

\* C23: an update with odd step index returns the parameters x_prev recorded
\* by the even step before it if stability_check is set and the measured
\* error exceeds tol, and the half step x - 0.5*lr*g, taken with the old
\* learning rate, otherwise; the learning rate is adjusted in both cases.
C23_OddStep ==
    [][ OddUpdate =>
          LET g == opt_last'.g
              rejected == /\ opt_cfg.stability_check
                          /\ opt_last'.err_num * TolDen
                                > opt_cfg.tol * opt_last'.err_den
          IN  /\ opt_last'.err_den = Max(XDen, opt_state.x_stepped)
              /\ 2 * LrDen * opt_last'.err_num
                    = Abs(2 * LrDen * (opt_state.x_stepped - opt_state.x)
                          + XDen * opt_state.lr * g)
              /\ IF rejected
                 THEN opt_state'.x = opt_state.x_prev
                 ELSE 2 * LrDen * (opt_state.x - opt_state'.x)
                         = XDen * opt_state.lr * g
              /\ opt_last'.rejected = rejected
              /\ opt_last'.mult =
                    Clamp(SqrtRatio(opt_cfg, opt_last'.err_num,
                                    opt_last'.err_den),
                          LowerMult, UpperMult)
              /\ opt_state'.lr = (opt_state.lr * opt_last'.mult) \div MultDen
      ]_vars
C23_Witness ==
    /\ opt_i = 2
    /\ opt_last.i = 1
    /\ opt_last.rejected
    /\ opt_state.x = opt_state.x_prev
    /\ opt_state.x # opt_last.x
    /\ opt_state.lr < opt_cfg.step_size

\* some update is made
AnyUpdate == opt_i' = opt_i + 1

\* C29: the learning rate changes only in updates with odd step index, an
\* update with odd step index returns x_stepped and x_prev unchanged, and
\* init returns x_stepped = 0 and x_prev = x0, so that both keep these values
\* until the first update with even step index.
C29_OddKeepsMemory ==
    /\ [](opt_i = 0 => /\ opt_state.x_stepped = 0
                       /\ opt_state.x_prev = opt_state.x
                       /\ opt_state.lr = opt_cfg.step_size)
    /\ [][ /\ (AnyUpdate /\ opt_state'.lr # opt_state.lr) => OddUpdate
           /\ OddUpdate => /\ opt_state'.x_stepped = opt_state.x_stepped
                           /\ opt_state'.x_prev = opt_state.x_prev
           /\ (OddUpdate /\ opt_i = 0) => /\ opt_state'.x_stepped = 0
                                          /\ opt_state'.x_prev = opt_last'.x
         ]_vars
C29_Witness ==
    /\ opt_i = 2
    /\ opt_last.i % 2 = 1
    /\ opt_state.x_stepped = 0
    /\ opt_state.x_prev = 3 * XDen
    /\ opt_state.x # opt_state.x_prev
    /\ opt_state.lr > opt_cfg.step_size

====
